---- MODULE Spec2Model ----
(***************************************************************************)
(* A model of the MCP endpoint router: the connection registry             *)
(* (src/src/core/connection_manager.py), the JSON-RPC id rewriting, the    *)
(* pending-response table, and the two message handlers                    *)
(* (src/src/handlers/websocket_handler.py) run by the per-socket read      *)
(* loops of src/src/server.py.                                             *)
(*                                                                         *)
(* Strings are sequences of one-character strings, so that formatting,     *)
(* splitting and parsing are computed and not assumed.                     *)
(***************************************************************************)
EXTENDS Integers, Sequences, FiniteSets, TLC

(***************************************************************************)
(* Bounds of the model.                                                    *)
(***************************************************************************)
MaxIdLen == 4

(***************************************************************************)
(* Values.  A JSON-RPC id is an integer, a string, null, or absent.        *)
(***************************************************************************)
IntId(i) == [t |-> "int", v |-> i]
StrId(s) == [t |-> "str", v |-> s]
NullId == [t |-> "null", v |-> 0]
AbsentId == [t |-> "absent", v |-> 0]

\* Optional[str] for a connection uuid: Python's None, or a string.
NoUuid == [some |-> FALSE, v |-> <<>>]
SomeUuid(u) == [some |-> TRUE, v |-> u]

Digits == <<"0", "1", "2", "3", "4", "5", "6", "7", "8", "9">>
IsDigit(c) == \E d \in 1..10 : Digits[d] = c
DigitValue(c) == (CHOOSE d \in 1..10 : Digits[d] = c) - 1

\* Python's str(int): the decimal digits, "-" in front of a negative number.
RECURSIVE DecNat(_)
DecNat(n) ==
    IF n < 10 THEN <<Digits[n + 1]>>
    ELSE DecNat(n \div 10) \o <<Digits[(n % 10) + 1]>>
PyStrInt(i) == IF i < 0 THEN <<"-">> \o DecNat(0 - i) ELSE DecNat(i)

\* Python's int(str): an optional sign, then digits, single underscores allowed
\* between digits.  ok = FALSE is ValueError.
RECURSIVE DigitsValue(_, _)
DigitsValue(s, acc) ==
    IF s = <<>> THEN acc
    ELSE IF Head(s) = "_" THEN DigitsValue(Tail(s), acc)
    ELSE DigitsValue(Tail(s), acc * 10 + DigitValue(Head(s)))
PyIntBodyOk(b) ==
    /\ Len(b) > 0
    /\ IsDigit(b[1])
    /\ IsDigit(b[Len(b)])
    /\ \A i \in 1..Len(b) : IsDigit(b[i]) \/ b[i] = "_"
    /\ \A i \in 1..(Len(b) - 1) : ~(b[i] = "_" /\ b[i + 1] = "_")
PyInt(s) ==
    LET signed == Len(s) > 0 /\ s[1] \in {"-", "+"}
        body == IF signed THEN Tail(s) ELSE s
    IN  IF PyIntBodyOk(body)
        THEN [ok |-> TRUE,
              v |-> IF signed /\ s[1] = "-" THEN 0 - DigitsValue(body, 0)
                    ELSE DigitsValue(body, 0)]
        ELSE [ok |-> FALSE, v |-> 0]

\* The position of the first c in s, 0 when there is none.
IndexOf(s, c) ==
    IF \E i \in 1..Len(s) : s[i] = c
    THEN CHOOSE i \in 1..Len(s) : s[i] = c /\ \A j \in 1..(i - 1) : s[j] # c
    ELSE 0

\* A variant of SplitUnderscore2: str.split("_") with no maxsplit, so the
\* third part stops at the next separator.
SplitUnderscoreAll(s) ==
    LET i == IndexOf(s, "_")
        r == SubSeq(s, i + 1, Len(s))
        j == IndexOf(r, "_")
        q == SubSeq(r, j + 1, Len(r))
        k == IndexOf(q, "_")
    IN  IF i = 0 THEN <<s>>
        ELSE IF j = 0 THEN <<SubSeq(s, 1, i - 1), r>>
        ELSE <<SubSeq(s, 1, i - 1), SubSeq(r, 1, j - 1),
               IF k = 0 THEN q ELSE SubSeq(q, 1, k - 1)>>

\* transformed_id.split("_", 2): at most three parts, the last keeps its "_".
SplitUnderscore2(s) ==
    LET i == IndexOf(s, "_")
        r == SubSeq(s, i + 1, Len(s))
        j == IndexOf(r, "_")
    IN  IF i = 0 THEN <<s>>
        ELSE IF j = 0 THEN <<SubSeq(s, 1, i - 1), r>>
        ELSE <<SubSeq(s, 1, i - 1), SubSeq(r, 1, j - 1), SubSeq(r, j + 1, Len(r))>>

\* Python truthiness of an id value: None, 0 and "" are falsy.
Truthy(id) ==
    CASE id.t = "int" -> id.v # 0
      [] id.t = "str" -> id.v # <<>>
      [] OTHER -> FALSE

\* ConnectionManager._transform_jsonrpc_id (ids are integers or strings here).
TransformId(original_id, connection_uuid) ==
    IF original_id.t = "int"
    THEN connection_uuid \o <<"_", "n", "_">> \o PyStrInt(original_id.v)
    ELSE connection_uuid \o <<"_", "s", "_">> \o original_id.v

\* ConnectionManager._restore_jsonrpc_id on a string.
RestoreStr(s) ==
    LET parts == SplitUnderscore2(s)
        n == PyInt(parts[3])
    IN  IF s = <<>> \/ IndexOf(s, "_") = 0 THEN [uuid |-> NoUuid, id |-> NullId]
        ELSE IF Len(parts) < 3 THEN [uuid |-> NoUuid, id |-> NullId]
        ELSE [uuid |-> SomeUuid(parts[1]),
              id |-> CASE parts[2] = <<"n">> ->
                            IF n.ok THEN IntId(n.v) ELSE StrId(parts[3])
                       [] parts[2] = <<"s">> ->
                            IF parts[3] = <<"n", "u", "l", "l">> THEN NullId
                            ELSE StrId(parts[3])
                       [] OTHER -> StrId(parts[3])]

\* ConnectionManager._restore_jsonrpc_id on any id value.  A non-zero integer
\* makes the test '"_" not in transformed_id' raise TypeError.
RestoreId(tid) ==
    CASE tid.t = "str" -> [raised |-> FALSE] @@ RestoreStr(tid.v)
      [] tid.t = "int" /\ tid.v # 0 ->
            [raised |-> TRUE, uuid |-> NoUuid, id |-> NullId]
      [] OTHER -> [raised |-> FALSE, uuid |-> NoUuid, id |-> NullId]

(***************************************************************************)
(* The router.  Sockets, agents and servers.                               *)
(***************************************************************************)
MaxToolMsgs == 2
MaxCallerMsgs == 1
MaxCloses == 1

ToolSocks == {"t1", "t2", "t3"}
CallerSocks == {"c1", "c2"}
Socks == ToolSocks \cup CallerSocks
Agents == {"A", "B"}
Servers == {"s1", "s2"}

\* The URL parameters a socket may connect with: the agent_id of its token
\* and, for a tool server, its server_id ("" for a caller).  A socket with
\* no userId is closed by its endpoint before it registers.
NoUser == [agent |-> "", server |-> ""]
Endpoints(t) ==
    CASE t \in {"t1", "t2"} -> {[agent |-> "A", server |-> "s1"], NoUser}
      [] t = "t3" -> {[agent |-> "A", server |-> "s2"], [agent |-> "B", server |-> "s1"],
                      NoUser}
      [] t = "c1" -> {[agent |-> "A", server |-> ""]}
      [] OTHER -> {[agent |-> "A", server |-> ""], [agent |-> "B", server |-> ""], NoUser}

\* The populations explored: three tool servers and one caller, or one tool
\* server and two callers.
Populations ==
    {e \in [Socks -> UNION {Endpoints(t) : t \in Socks}] :
        /\ \A t \in Socks : e[t] \in Endpoints(t)
        /\ e["t1"] # NoUser
        /\ \/ e["c2"] = NoUser /\ e["t2"] # NoUser /\ e["t3"] # NoUser
           \/ e["c2"] # NoUser /\ e["t2"] = NoUser /\ e["t3"] = NoUser}

\* uuid.uuid4() as a string: fresh on every call, never holding "_".
UuidChars == <<"a", "b", "c", "d", "e", "f">>
Uuid4(n) == <<UuidChars[n + 1]>>

ToolNames == {"calc"}
CallerIds == {IntId(7), IntId(0), AbsentId}
CallerToolNames == {"calc", "nope", ""}
ToolMsgKinds == {"tools", "content", "error", "bad"}

\* How many frames the callers and the tool servers send, and how many peers
\* close, in one run.
Quota == [req |-> MaxCallerMsgs, tool |-> MaxToolMsgs, closes |-> MaxCloses]

VARIABLES
    ep,         \* per socket: the agent_id and server_id of its URL
    sock,       \* per socket: "new", "open" or "closed"
    pc,         \* per socket: where its endpoint coroutine is suspended
    loc,        \* per socket: the locals of its coroutine
    mcp_server_connections,  \* agent_id -> the ordered dict server_id -> MCPServerConnection
    robot_connections,       \* the RobotConnection entries, keyed by connection_uuid
    pending_responses,       \* the PendingResponse entries, keyed by transformed id
    lockq,      \* the registry lock: its holder first, then the waiters in order
    inbox,      \* per socket: the frames the router has written to it
    hist,       \* history: counters and logs the claims are stated over
    rw          \* the workbench of the id rewriter and of the aggregation

vars == <<ep, sock, pc, loc, mcp_server_connections, robot_connections,
          pending_responses, lockq, inbox, hist, rw>>

SockAgent(t) == ep[t].agent
SockServer(t) == ep[t].server

\* The router's state as one value, for the handlers written as functions.
State ==
    [sock |-> sock, pc |-> pc, loc |-> loc, mcp |-> mcp_server_connections,
     robots |-> robot_connections, pending |-> pending_responses,
     lockq |-> lockq, inbox |-> inbox, hist |-> hist]

Becomes(G) ==
    /\ sock' = G.sock
    /\ pc' = G.pc
    /\ loc' = G.loc
    /\ mcp_server_connections' = G.mcp
    /\ robot_connections' = G.robots
    /\ pending_responses' = G.pending
    /\ lockq' = G.lockq
    /\ inbox' = G.inbox
    /\ hist' = G.hist
    /\ UNCHANGED <<ep, rw>>

NoFrame == [kind |-> "none"]
Loc0 ==
    [k |-> "", ckind |-> "", sid |-> "", uuid |-> NoUuid, msg |-> NoFrame,
     to |-> "", exc |-> "", connection_uuid |-> NoUuid, request_id |-> NullId,
     tid |-> NullId, tmsg |-> NoFrame, servers |-> <<>>, i |-> 0, succ |-> 0,
     rid |-> 0]

\* Frames.
Established == [kind |-> "established"]
\* utils/jsonrpc: create_tool_not_connected_error, create_forward_failed_error
\* and JSONRPCProtocol.create_error_response, as the frame they serialise to.
ErrorFrame(code, request_id, rid) ==
    [kind |-> "error", id |-> request_id, code |-> code, rid |-> rid]

\* dict.get("id"): None for a missing key.
GetId(m) == IF m.id.t = "absent" THEN NullId ELSE m.id

(***************************************************************************)
(* The registry's dictionaries.                                            *)
(***************************************************************************)
ServerIds(conns) == [i \in 1..Len(conns) |-> conns[i].server_id]
HasKey(conns, server_id) == \E i \in 1..Len(conns) : conns[i].server_id = server_id
KeyIndex(conns, server_id) ==
    CHOOSE i \in 1..Len(conns) : conns[i].server_id = server_id

\* A variant of PutServer: the new connection is added beside the old one.
PutServerBeside(conns, conn) == Append(conns, conn)

\* A variant of PutServer: a connection taking over a slot inherits the
\* catalog of the connection it replaces.
PutServerInherit(conns, conn) ==
    IF HasKey(conns, conn.server_id)
    THEN [conns EXCEPT ![KeyIndex(conns, conn.server_id)] =
                [conn EXCEPT !.tools = conns[KeyIndex(conns, conn.server_id)].tools]]
    ELSE Append(conns, conn)

\* self.mcp_server_connections[agent_id][server_id] = mcp_conn
PutServer(conns, conn) ==
    IF HasKey(conns, conn.server_id)
    THEN [conns EXCEPT ![KeyIndex(conns, conn.server_id)] = conn]
    ELSE Append(conns, conn)

\* del self.mcp_server_connections[agent_id][server_id]
DelServer(conns, server_id) == SelectSeq(conns, LAMBDA c : c.server_id # server_id)

\* ConnectionManager.get_agent_servers
get_agent_servers(G, agent_id) == ServerIds(G.mcp[agent_id])

\* ConnectionManager.is_mcp_server_connected
is_mcp_server_connected(G, agent_id, server_id) == HasKey(G.mcp[agent_id], server_id)

\* ConnectionManager.find_tool_server: the first server, in the dict's order,
\* whose catalog holds the name; "" for None.
\* A variant of find_tool_server: the first connection, whatever it publishes.
FindFirstServer(G, agent_id, tool_name) ==
    IF G.mcp[agent_id] = <<>> THEN "" ELSE G.mcp[agent_id][1].server_id

find_tool_server(G, agent_id, tool_name) ==
    LET conns == G.mcp[agent_id]
        hits == {i \in 1..Len(conns) : \E d \in conns[i].tools : d.name = tool_name}
    IN  IF hits = {} THEN ""
        ELSE conns[CHOOSE i \in hits : \A j \in hits : i <= j].server_id

\* A variant of update_tool_list: the descriptors are stored as received.
UpdateUnstamped(G, agent_id, server_id, tools) ==
    LET conns == G.mcp[agent_id]
        i == KeyIndex(conns, server_id)
    IN  IF HasKey(conns, server_id)
        THEN [G EXCEPT !.mcp[agent_id][i].tools = {[name |-> n, server_id |-> ""] : n \in tools}]
        ELSE G

\* ConnectionManager.update_tool_list
update_tool_list(G, agent_id, server_id, tools) ==
    LET conns == G.mcp[agent_id]
        i == KeyIndex(conns, server_id)
        stamped == {[name |-> n, server_id |-> server_id] : n \in tools}
    IN  IF HasKey(conns, server_id)
        THEN [G EXCEPT !.mcp[agent_id][i].tools = stamped]
        ELSE G

HasRobot(G, u) == \E r \in G.robots : SomeUuid(r.connection_uuid) = u
\* A variant of RobotOf: some caller connection, whatever its uuid.
RobotAny(G, u) == CHOOSE r \in G.robots : TRUE

RobotOf(G, u) == CHOOSE r \in G.robots : SomeUuid(r.connection_uuid) = u

(***************************************************************************)
(* The pending table.                                                      *)
(***************************************************************************)
HasPending(G, tid) == \E p \in G.pending : p.tid = tid
PendingOf(G, tid) == CHOOSE p \in G.pending : p.tid = tid
SeqRange(s) == {s[i] : i \in 1..Len(s)}
ReceivedKeys(p) == {r.server_id : r \in SeqRange(p.received)}

\* ConnectionManager.register_pending_response
register_pending_response(G, tid, request_id, connection_uuid, expected_servers, rid) ==
    [G EXCEPT !.pending =
        {p \in G.pending : p.tid # tid} \cup
        {[tid |-> tid, request_id |-> request_id, connection_uuid |-> connection_uuid,
          expected_servers |-> SeqRange(expected_servers), received |-> <<>>,
          rid |-> rid]}]

\* pending.received_responses[server_id] = response
PutResponse(p, server_id, response) ==
    IF \E i \in 1..Len(p.received) : p.received[i].server_id = server_id
    THEN [p EXCEPT !.received[CHOOSE i \in 1..Len(p.received) :
                                 p.received[i].server_id = server_id].response = response]
    ELSE [p EXCEPT !.received =
            Append(p.received, [server_id |-> server_id, response |-> response])]

\* ConnectionManager.add_server_response, for an id the table holds: the
\* table afterwards.
add_server_response(G, tid, server_id, response) ==
    LET p == PendingOf(G, tid)
    IN  [G EXCEPT !.pending = (G.pending \ {p}) \cup {PutResponse(p, server_id, response)}]

\* ... and whether it returns the entry: every expected server has responded.
IsComplete(p) == p.expected_servers \subseteq ReceivedKeys(p)

\* ConnectionManager.remove_pending_response
remove_pending_response(G, tid) ==
    [G EXCEPT !.pending = {p \in G.pending : p.tid # tid}]

(***************************************************************************)
(* Aggregation.                                                            *)
(***************************************************************************)
\* for tool in tools: tool["server_id"] = server_id
RECURSIVE StampTools(_, _)
StampTools(names, server_id) ==
    IF names = {} THEN <<>>
    ELSE LET n == CHOOSE x \in names : TRUE
         IN  <<[kind |-> "tool", name |-> n, server_id |-> server_id]>>
             \o StampTools(names \ {n}, server_id)

\* What one response adds to all_responses.
ResponseEntries(r) ==
    CASE r.response.kind = "tools" -> StampTools(r.response.tools, r.server_id)
      [] r.response.kind = "content" -> <<[kind |-> "content", src |-> r.response.src]>>
      [] r.response.kind = "other" ->
            <<[kind |-> "result", server_id |-> r.server_id, src |-> r.response.src]>>
      [] r.response.kind = "error" ->
            <<[kind |-> "error", server_id |-> r.server_id, src |-> r.response.src]>>
      [] OTHER -> <<>>

RECURSIVE AllResponses(_)
AllResponses(received) ==
    IF received = <<>> THEN <<>>
    ELSE ResponseEntries(Head(received)) \o AllResponses(Tail(received))

\* flag after the loop: set by the last response holding tools or content.
RECURSIVE Flag(_)
Flag(received) ==
    IF received = <<>> THEN ""
    ELSE LET last == received[Len(received)].response.kind
         IN  IF last \in {"tools", "content"} THEN last
             ELSE Flag(SubSeq(received, 1, Len(received) - 1))

\* A variant of aggregate_responses: the error frame carries the id of the
\* last response.
AggregateKeepId(p) ==
    IF \E r \in SeqRange(p.received) : r.response.kind = "bad"
    THEN [kind |-> "error", id |-> p.received[Len(p.received)].response.id,
          code |-> "InternalError", rid |-> p.rid]
    ELSE [kind |-> "result", id |-> p.received[Len(p.received)].response.id,
          flag |-> IF Flag(p.received) = "" THEN "responses" ELSE Flag(p.received),
          entries |-> AllResponses(p.received),
          total_servers |-> Cardinality(p.expected_servers),
          responded_servers |-> Len(p.received), rid |-> p.rid]

\* ConnectionManager.aggregate_responses.  A result that is not an object
\* (kind "bad") makes the loop raise, and the error frame carries request_id.
aggregate_responses(p) ==
    IF \E r \in SeqRange(p.received) : r.response.kind = "bad"
    THEN [kind |-> "error", id |-> p.request_id, code |-> "InternalError", rid |-> p.rid]
    ELSE [kind |-> "result", id |-> p.received[Len(p.received)].response.id,
          flag |-> IF Flag(p.received) = "" THEN "responses" ELSE Flag(p.received),
          entries |-> AllResponses(p.received),
          total_servers |-> Cardinality(p.expected_servers),
          responded_servers |-> Len(p.received), rid |-> p.rid]

\* A variant of transform_jsonrpc_message: every id is rewritten, a missing
\* one as the string of None.
TransformAny(m, connection_uuid) ==
    [m EXCEPT !.id = StrId(TransformId(IF m.id.t \in {"int", "str"} THEN m.id
                                       ELSE StrId(<<"N", "o", "n", "e">>),
                                       connection_uuid))]

\* ConnectionManager.transform_jsonrpc_message
transform_jsonrpc_message(m, connection_uuid) ==
    IF m.id.t # "absent" /\ Truthy(m.id)
    THEN [m EXCEPT !.id = StrId(TransformId(m.id, connection_uuid))]
    ELSE m

\* ConnectionManager.restore_jsonrpc_message on a frame that has an id:
\* the target uuid (None unless truthy) and the frame with the id restored.
restore_jsonrpc_message(f) ==
    LET r == RestoreId(f.id)
    IN  IF r.uuid.some /\ r.uuid.v # <<>>
        THEN [raised |-> r.raised, uuid |-> r.uuid, msg |-> [f EXCEPT !.id = r.id]]
        ELSE [raised |-> r.raised, uuid |-> NoUuid, msg |-> f]

(***************************************************************************)
(* The registry lock (asyncio.Lock): the holder is the head of lockq, the  *)
(* waiters follow in arrival order.  A coroutine that finds the lock free  *)
(* takes it without suspending.                                            *)
(***************************************************************************)
Release(G) == [G EXCEPT !.lockq = Tail(@)]

\* Back in the read loop, awaiting receive_text().
Idle(G, t) ==
    [G EXCEPT !.pc[t] = "loop",
              !.loc[t] = [Loc0 EXCEPT !.connection_uuid = G.loc[t].connection_uuid]]

ForwardFailed(l) == ErrorFrame("ForwardFailed", l.request_id, l.rid)

\* What a handler does next: op "idle" is the return to the read loop in
\* state G, op "forward" a call of forward_to_* in state G.  call.k names
\* what the handler does with the call's result.
Step(op, G, call) == [op |-> op, G |-> G, call |-> call]
RobotCall(uuid, msg, k) == [ckind |-> "robot", sid |-> "", uuid |-> uuid, msg |-> msg, k |-> k]
ToolCall(sid, msg, k) == [ckind |-> "tool", sid |-> sid, uuid |-> NoUuid, msg |-> msg, k |-> k]
NoCall == RobotCall(NoUuid, NoFrame, "")
Return(G) == Step("idle", G, NoCall)

\* _handle_robot_message: the loop over connected_servers from index i on,
\* and what follows it.  Servers that are no longer connected are skipped.
NextConnected(G, t) ==
    LET l == G.loc[t]
        rest == {j \in l.i..Len(l.servers) :
                    is_mcp_server_connected(G, SockAgent(t), l.servers[j])}
    IN  IF rest = {} THEN Len(l.servers) + 1
        ELSE CHOOSE j \in rest : \A k \in rest : j <= k
\* A variant of FanAt: the loop ends after the first server.
FanAtFirst(G, t, l, i) ==
    IF i > 1
    THEN IF l.succ = 0
         THEN Step("forward", G, RobotCall(l.connection_uuid, ForwardFailed(l), "cleanup"))
         ELSE Return(G)
    ELSE Step("forward", G, ToolCall(l.servers[i], l.tmsg, "fan_out"))

FanAt(G, t, l, i) ==
    IF i > Len(l.servers)
    THEN IF l.succ = 0
         THEN Step("forward", G, RobotCall(l.connection_uuid, ForwardFailed(l), "cleanup"))
         ELSE Return(G)
    ELSE Step("forward", G, ToolCall(l.servers[i], l.tmsg, "fan_out"))
NextFan(G, t) ==
    FanAt([G EXCEPT !.loc[t].i = NextConnected(G, t)], t, G.loc[t], NextConnected(G, t))

\* _handle_mcp_server_message after the aggregate was sent: the entry is
\* removed, then the restored message is sent if it names a target.
AfterDeliver(G1, restored) ==
    IF restored.raised \/ ~restored.uuid.some
    THEN Return(G1)
    ELSE Step("forward", G1, RobotCall(restored.uuid, restored.msg, "return"))

\* A variant of AfterForward: the entry is kept after the forward-failed
\* error was sent.
AfterForwardKeep(G, t, ok, l) ==
    CASE l.k = "deliver" ->
            AfterDeliver(remove_pending_response(G, l.tid), restore_jsonrpc_message(l.msg))
      [] l.k = "return" -> Return(G)
      [] l.k = "tool_call" ->
            IF ok THEN Return(G)
            ELSE Step("forward", G, RobotCall(l.connection_uuid, ForwardFailed(l), "cleanup"))
      [] l.k = "cleanup" -> Return(G)
      [] l.k = "fan_out" ->
            NextFan([G EXCEPT !.loc[t].succ = @ + (IF ok THEN 1 ELSE 0),
                              !.loc[t].i = @ + 1], t)

\* The handler after a forward has returned ok.
AfterForward(G, t, ok, l) ==
    CASE l.k = "deliver" ->
            AfterDeliver(remove_pending_response(G, l.tid), restore_jsonrpc_message(l.msg))
      [] l.k = "return" -> Return(G)
      [] l.k = "tool_call" ->
            \* _handle_tool_call_request after forward_to_mcp_server
            IF ok THEN Return(G)
            ELSE Step("forward", G, RobotCall(l.connection_uuid, ForwardFailed(l), "cleanup"))
      [] l.k = "cleanup" ->
            Return(IF Truthy(l.tid) THEN remove_pending_response(G, l.tid) ELSE G)
      [] l.k = "fan_out" ->
            NextFan([G EXCEPT !.loc[t].succ = @ + (IF ok THEN 1 ELSE 0),
                              !.loc[t].i = @ + 1], t)

RECURSIVE Forward(_, _, _), ForwardBody(_, _), Continue(_, _, _), Run(_, _)

\* forward_to_mcp_server / forward_to_robot_by_uuid up to the first
\* suspension: the lock, or the send.
Forward(G, t, call) ==
    LET G1 == [G EXCEPT !.loc[t].ckind = call.ckind, !.loc[t].sid = call.sid,
                        !.loc[t].uuid = call.uuid, !.loc[t].msg = call.msg,
                        !.loc[t].k = call.k, !.loc[t].to = "", !.loc[t].exc = ""]
    IN  IF G.lockq = <<>>
        THEN ForwardBody([G1 EXCEPT !.lockq = <<t>>], t)
        ELSE [G1 EXCEPT !.lockq = Append(@, t), !.pc[t] = "fwd_wait"]

\* Inside the lock: look the connection up; return False when it is missing,
\* else start send_text on its websocket.
ForwardBody(G, t) ==
    LET l == G.loc[t]
        conns == G.mcp[SockAgent(t)]
        found == IF l.ckind = "tool" THEN HasKey(conns, l.sid) ELSE HasRobot(G, l.uuid)
        websocket == IF l.ckind = "tool" THEN conns[KeyIndex(conns, l.sid)].websocket
                     ELSE RobotOf(G, l.uuid).websocket
    IN  IF found
        THEN [G EXCEPT !.pc[t] = "fwd_send", !.loc[t].to = websocket]
        ELSE Continue(Release(G), t, FALSE)

\* The call has returned ok to its handler, which runs to its next suspension.
Continue(G, t, ok) == Run(AfterForward(G, t, ok, G.loc[t]), t)

Run(step, t) ==
    IF step.op = "idle" THEN Idle(step.G, t) ELSE Forward(step.G, t, step.call)

(***************************************************************************)
(* The handlers, from the received message to their first suspension.      *)
(***************************************************************************)
\* _handle_mcp_server_message from the complete entry on: the aggregate is
\* sent to pending.connection_uuid.
Deliver(G2, w, pending) ==
    Forward([G2 EXCEPT !.hist.agglog =
                 Append(@, [rid |-> pending.rid, tid |-> pending.tid, by |-> w,
                            connection_uuid |-> pending.connection_uuid,
                            raised |-> \E r \in SeqRange(pending.received) :
                                          r.response.kind = "bad"]),
                       !.loc[w].tid = pending.tid, !.loc[w].rid = pending.rid],
            w, RobotCall(SomeUuid(pending.connection_uuid),
                         aggregate_responses(pending), "deliver"))

\* ... from add_server_response on.
Respond(G2, w, pending) ==
    IF IsComplete(pending) THEN Deliver(G2, w, pending) ELSE G2

\* ... from the test of the id on.
Collect(G1, w, m, transformed_id) ==
    IF Truthy(transformed_id) /\ HasPending(G1, transformed_id)
    THEN Respond(add_server_response(G1, transformed_id, SockServer(w), m), w,
                 PutResponse(PendingOf(G1, transformed_id), SockServer(w), m))
    ELSE G1

\* WebSocketHandler._handle_mcp_server_message
handle_mcp_server_message(G, w, m) ==
    IF ~m.json THEN G
    ELSE Collect(IF m.kind = "tools"
                 THEN update_tool_list(G, SockAgent(w), SockServer(w), m.tools)
                 ELSE G,
                 w, m, GetId(m))

\* The error reply of a handler to its caller.
Reply(G, c, code) ==
    Step("forward", G,
         RobotCall(G.loc[c].connection_uuid,
                   ErrorFrame(code, G.loc[c].request_id, G.loc[c].rid), "return"))

\* A variant of CallTool: the entry expects every server of the agent.
CallToolEvery(G, c, server_id, transformed_message, transformed_request_id) ==
    Step("forward",
         IF Truthy(transformed_request_id)
         THEN register_pending_response(
                  [G EXCEPT !.loc[c].tid = transformed_request_id],
                  transformed_request_id, G.loc[c].request_id,
                  G.loc[c].connection_uuid.v, get_agent_servers(G, SockAgent(c)),
                  G.loc[c].rid)
         ELSE [G EXCEPT !.loc[c].tid = transformed_request_id],
         ToolCall(server_id, transformed_message, "tool_call"))

\* _handle_tool_call_request from the transformed message on.
CallTool(G, c, server_id, transformed_message, transformed_request_id) ==
    Step("forward",
         IF Truthy(transformed_request_id)
         THEN register_pending_response(
                  [G EXCEPT !.loc[c].tid = transformed_request_id],
                  transformed_request_id, G.loc[c].request_id,
                  G.loc[c].connection_uuid.v, <<server_id>>, G.loc[c].rid)
         ELSE [G EXCEPT !.loc[c].tid = transformed_request_id],
         ToolCall(server_id, transformed_message, "tool_call"))

\* ... from the lookup of the tool's server on.
ResolveTool(G, c, m, server_id) ==
    IF m.name = "" THEN Reply(G, c, "InvalidParams")
    ELSE IF server_id = "" THEN Reply(G, c, "MethodNotFound")
    ELSE IF ~is_mcp_server_connected(G, SockAgent(c), server_id)
    THEN Reply(G, c, "ToolNotConnected")
    ELSE CallTool(G, c, server_id,
                  transform_jsonrpc_message(m, G.loc[c].connection_uuid.v),
                  GetId(transform_jsonrpc_message(m, G.loc[c].connection_uuid.v)))

\* WebSocketHandler._handle_tool_call_request
handle_tool_call_request(G, c, m) ==
    ResolveTool(G, c, m, find_tool_server(G, SockAgent(c), m.name))

\* _handle_robot_message from the registration of the pending response on.
FanOut(G1, c) ==
    LET l == G1.loc[c]
    IN  NextFan(IF Truthy(l.tid)
                THEN register_pending_response(G1, l.tid, l.request_id,
                                               l.connection_uuid.v, l.servers, l.rid)
                ELSE G1, c)

\* A variant of Broadcast: without servers the reply is the forward-failed
\* error.
BroadcastFailed(G, c, m, transformed_message, connected_servers) ==
    IF connected_servers = <<>> THEN Reply(G, c, "ForwardFailed")
    ELSE IF ~m.json THEN Return(G)
    ELSE FanOut([G EXCEPT !.loc[c].tid = GetId(transformed_message),
                          !.loc[c].tmsg = transformed_message,
                          !.loc[c].servers = connected_servers,
                          !.loc[c].i = 1, !.loc[c].succ = 0], c)

\* A variant of Broadcast: a frame that is not JSON is fanned out as it is.
BroadcastRaw(G, c, m, transformed_message, connected_servers) ==
    IF connected_servers = <<>> THEN Reply(G, c, "ToolNotConnected")
    ELSE FanOut([G EXCEPT !.loc[c].tid = GetId(transformed_message),
                          !.loc[c].tmsg = transformed_message,
                          !.loc[c].servers = connected_servers,
                          !.loc[c].i = 1, !.loc[c].succ = 0], c)

\* ... from the transformed message on.  After a frame that is not JSON,
\* transformed_message_data is unbound when servers are connected, and the
\* handler ends in its except clause.
Broadcast(G, c, m, transformed_message, connected_servers) ==
    IF connected_servers = <<>> THEN Reply(G, c, "ToolNotConnected")
    ELSE IF ~m.json THEN Return(G)
    ELSE FanOut([G EXCEPT !.loc[c].tid = GetId(transformed_message),
                          !.loc[c].tmsg = transformed_message,
                          !.loc[c].servers = connected_servers,
                          !.loc[c].i = 1, !.loc[c].succ = 0], c)

\* ... from the parsed message on.
Dispatch(G, c, m) ==
    IF m.json /\ m.method = "tools/call"
    THEN handle_tool_call_request(G, c, m)
    ELSE Broadcast(G, c, m, transform_jsonrpc_message(m, G.loc[c].connection_uuid.v),
                   get_agent_servers(G, SockAgent(c)))

\* WebSocketHandler._handle_robot_message
handle_robot_message(G0, c, m) ==
    Run(Dispatch([G0 EXCEPT !.loc[c].request_id = IF m.json THEN GetId(m) ELSE NullId,
                            !.loc[c].rid = G0.hist.nreq], c, m), c)

(***************************************************************************)
(* Registration and teardown.                                              *)
(***************************************************************************)
Pair(w) == <<SockAgent(w), SockServer(w)>>

\* ConnectionManager.unregister_mcp_server_connection, inside the lock.
unregister_mcp_server_connection(G, agent_id, server_id) ==
    [G EXCEPT !.mcp[agent_id] = DelServer(@, server_id)]

\* ConnectionManager.unregister_robot_connection, inside the lock.
unregister_robot_connection(G, key) ==
    [G EXCEPT !.robots = {r \in @ : r.connection_uuid # key}]

\* What the endpoint's finally clause unregisters, inside the lock: the tool
\* endpoint its (agent_id, server_id), the caller endpoint its user_id.
UnregisterBody(G, t) ==
    IF t \in ToolSocks
    THEN unregister_mcp_server_connection(G, SockAgent(t), SockServer(t))
    ELSE unregister_robot_connection(G, <<SockAgent(t)>>)

\* The finally clause of an endpoint.
Teardown(G, t) ==
    IF G.lockq = <<>>
    THEN [UnregisterBody(G, t) EXCEPT !.pc[t] = "done", !.loc[t] = Loc0]
    ELSE [G EXCEPT !.lockq = Append(@, t), !.pc[t] = "unreg_wait", !.loc[t] = Loc0]

\* The endpoint after registration: the connection_established frame, then
\* the read loop; an exception of send_text leads to the finally clause.
Acknowledge(G, t) ==
    IF G.sock[t] = "open"
    THEN Idle([G EXCEPT !.inbox[t] = Append(@, Established)], t)
    ELSE Teardown(G, t)

\* register_mcp_server_connection from the store on: the new connection takes
\* the slot, and the lock is released.
StoreMcp(G, w) ==
    LET agent_id == SockAgent(w)
        conns == G.mcp[agent_id]
        replaced == IF HasKey(conns, SockServer(w))
                    THEN {[old |-> conns[KeyIndex(conns, SockServer(w))].websocket,
                           new |-> w]}
                    ELSE {}
        G1 == [G EXCEPT !.mcp[agent_id] =
                    PutServer(@, [server_id |-> SockServer(w), websocket |-> w,
                                  tools |-> {}]),
                        !.hist.displaced = @ \cup replaced,
                        !.hist.latest[Pair(w)] = w]
    IN  Acknowledge(Release(G1), w)

\* register_mcp_server_connection inside the lock, up to its suspension in
\* old_connection.websocket.close().
RegisterMcpBody(G, w) ==
    LET conns == G.mcp[SockAgent(w)]
    IN  IF HasKey(conns, SockServer(w))
        THEN [G EXCEPT !.pc[w] = "reg_close",
                       !.loc[w].to = conns[KeyIndex(conns, SockServer(w))].websocket]
        ELSE StoreMcp(G, w)

\* A variant of register_robot_connection: one caller connection per agent.
RegisterRobotPerAgent(G, c) ==
    LET u == Uuid4(G.hist.nextUuid)
        G1 == [G EXCEPT !.robots = {r \in @ : r.agent_id # SockAgent(c)}
                                      \cup {[connection_uuid |-> u, websocket |-> c,
                                             agent_id |-> SockAgent(c)]},
                        !.hist.nextUuid = @ + 1,
                        !.loc[c].connection_uuid = SomeUuid(u)]
    IN  Acknowledge(Release(G1), c)

\* register_robot_connection inside the lock.
RegisterRobotBody(G, c) ==
    LET u == Uuid4(G.hist.nextUuid)
        G1 == [G EXCEPT !.robots = @ \cup {[connection_uuid |-> u, websocket |-> c,
                                            agent_id |-> SockAgent(c)]},
                        !.hist.nextUuid = @ + 1,
                        !.loc[c].connection_uuid = SomeUuid(u)]
    IN  Acknowledge(Release(G1), c)

RegisterBody(G, t) ==
    IF t \in ToolSocks THEN RegisterMcpBody(G, t) ELSE RegisterRobotBody(G, t)

(***************************************************************************)
(* Actions.                                                                *)
(***************************************************************************)
\* The endpoint registering without waiting for the lock.
ConnectUnlocked(t) ==
    /\ sock[t] = "new"
    /\ ep[t] # NoUser
    /\ Becomes(RegisterBody([State EXCEPT !.sock[t] = "open",
                                          !.lockq = <<t>> \o @], t))

\* A socket is accepted and its endpoint registers it.
Connect(t) ==
    /\ sock[t] = "new"
    /\ ep[t] # NoUser
    /\ LET G == [State EXCEPT !.sock[t] = "open"]
       IN  IF lockq = <<>>
           THEN Becomes(RegisterBody([G EXCEPT !.lockq = <<t>>], t))
           ELSE Becomes([G EXCEPT !.lockq = Append(@, t), !.pc[t] = "reg_wait"])

\* A waiter is handed the lock.
RegisterResume(t) ==
    /\ pc[t] = "reg_wait"
    /\ Head(lockq) = t
    /\ Becomes(RegisterBody(State, t))

\* The close() of the displaced websocket returns; an exception of close() is
\* logged and ignored.
RegisterClosed(w) ==
    /\ pc[w] = "reg_close"
    /\ Becomes(StoreMcp([State EXCEPT !.sock[loc[w].to] = "closed"], w))

\* The peer closes its end.
PeerClose(t) ==
    /\ sock[t] = "open"
    /\ hist.ncloses < hist.quota.closes
    /\ sock' = [sock EXCEPT ![t] = "closed"]
    /\ hist' = [hist EXCEPT !.ncloses = @ + 1]
    /\ UNCHANGED <<pc, loc, mcp_server_connections, robot_connections,
                   pending_responses, lockq, inbox, ep, rw>>

\* receive_text() raises WebSocketDisconnect: the loop breaks.
LoopExit(t) ==
    /\ pc[t] = "loop"
    /\ sock[t] = "closed"
    /\ Becomes(Teardown(State, t))

UnregisterResume(t) ==
    /\ pc[t] = "unreg_wait"
    /\ Head(lockq) = t
    /\ Becomes([Release(UnregisterBody(State, t)) EXCEPT !.pc[t] = "done"])

\* The frames a tool server may send: a response of any kind carrying an id
\* that it or another server was sent, a tools/list result under an id of its
\* own, or a frame that is not JSON.
ForwardedFrames(S) == {f \in UNION {SeqRange(inbox[w]) : w \in S} : f.kind = "request"}
ToolMessages(w) ==
    LET Msg(id, k) == [json |-> TRUE, id |-> id, kind |-> k,
                       tools |-> IF k = "tools" THEN ToolNames ELSE {}, src |-> w]
    IN  {Msg(f.id, k) : f \in ForwardedFrames(ToolSocks), k \in ToolMsgKinds}
        \cup {Msg(IntId(1), "tools")}
        \cup {[json |-> FALSE, id |-> AbsentId, kind |-> "", tools |-> {}, src |-> w]}

\* History: the requests whose forwarded frame the message answers with a
\* success response echoing the frame's id.
Echoes(w, m) ==
    IF m.json /\ m.kind = "content"
    THEN {[by |-> w, rid |-> f.rid] : f \in {x \in ForwardedFrames({w}) : x.id = m.id}}
    ELSE {}

\* History: the requests whose frame, forwarded to this server, the message
\* answers under its rewritten id while the table holds no entry for that id.
Late(w, m) ==
    IF m.json /\ Truthy(m.id) /\ ~HasPending(State, m.id)
    THEN {[by |-> w, rid |-> f.rid] :
             f \in {x \in ForwardedFrames({w}) : x.id = m.id /\ x.id # x.orig}}
    ELSE {}

\* History: the tool names the message publishes, with the socket it came on.
Published(w, m) ==
    IF m.json /\ m.kind = "tools" THEN {[by |-> w, name |-> n] : n \in m.tools} ELSE {}

ToolRecv(w) ==
    /\ w \in ToolSocks
    /\ pc[w] = "loop"
    /\ sock[w] = "open"
    /\ hist.ntool < hist.quota.tool
    /\ \E m \in ToolMessages(w) :
          Becomes(handle_mcp_server_message(
                    [State EXCEPT !.hist.ntool = @ + 1,
                                  !.hist.echoed = @ \cup Echoes(w, m),
                                  !.hist.late = @ \cup Late(w, m),
                                  !.hist.published = @ \cup Published(w, m)], w, m))

\* The frames a caller may send.  orig, from and rid are history: the id as
\* the caller wrote it, the caller's socket, and the request's number.
CallerMessages(c) ==
    LET Msg(json, id, method, name) ==
            [kind |-> "request", json |-> json, id |-> id, method |-> method,
             name |-> name, orig |-> id, from |-> c, rid |-> hist.nreq + 1]
    IN  {Msg(TRUE, i, "tools/list", "") : i \in CallerIds}
        \cup {Msg(TRUE, i, "tools/call", n) : i \in CallerIds, n \in CallerToolNames}
        \cup {Msg(FALSE, AbsentId, "", "")}

\* The tool names in the catalogs of an agent's connections.
CatalogNames(agent_id) ==
    UNION {{d.name : d \in conn.tools} : conn \in SeqRange(mcp_server_connections[agent_id])}

\* History: a caller's message as received, with the servers connected for
\* its agent at that moment and whether a catalog of theirs holds its tool name.
Received(c, m) ==
    [from |-> c, msg |-> m, servers |-> get_agent_servers(State, SockAgent(c)),
     known |-> m.name \in CatalogNames(SockAgent(c)),
     owner |-> find_tool_server(State, SockAgent(c), m.name)]

CallerRecv(c) ==
    /\ c \in CallerSocks
    /\ pc[c] = "loop"
    /\ sock[c] = "open"
    /\ hist.nreq < hist.quota.req
    /\ \E m \in CallerMessages(c) :
          Becomes(handle_robot_message(
                    [State EXCEPT !.hist.nreq = @ + 1,
                                  !.hist.reqs = Append(@, Received(c, m))], c, m))

\* A waiter of forward_to_* is handed the lock.
ForwardResume(t) ==
    /\ pc[t] = "fwd_wait"
    /\ Head(lockq) = t
    /\ Becomes(ForwardBody(State, t))

\* How send_text may end: on an open socket the frame is written; on a
\* closed one it raises ConnectionClosed or another exception.
SendOutcomes(t) ==
    IF sock[loc[t].to] = "open" THEN {"sent"} ELSE {"Exception", "ConnectionClosed"}
\* A variant of AfterSend in which the socket delivers the frame ahead of
\* the frames written to it before.
AfterSendFirst(G, t, outcome) ==
    IF outcome = "sent"
    THEN [G EXCEPT !.inbox[G.loc[t].to] = <<G.loc[t].msg>> \o @]
    ELSE [G EXCEPT !.loc[t].exc = outcome]
AfterSend(G, t, outcome) ==
    IF outcome = "sent"
    THEN [G EXCEPT !.inbox[G.loc[t].to] = Append(@, G.loc[t].msg)]
    ELSE [G EXCEPT !.loc[t].exc = outcome]

\* send_text returns, or raises.  After ConnectionClosed the call awaits
\* unregister_*, which awaits the lock the call itself holds.
SendDone(t) ==
    /\ pc[t] = "fwd_send"
    /\ \E outcome \in SendOutcomes(t) :
          Becomes(IF outcome = "ConnectionClosed"
                  THEN [AfterSend(State, t, outcome) EXCEPT !.pc[t] = "dead",
                                                            !.lockq = Append(@, t)]
                  ELSE Continue(Release(AfterSend(State, t, outcome)), t,
                                outcome = "sent"))

Init ==
    /\ ep \in Populations
    /\ sock = [t \in Socks |-> "new"]
    /\ pc = [t \in Socks |-> "new"]
    /\ loc = [t \in Socks |-> Loc0]
    /\ mcp_server_connections = [a \in Agents |-> <<>>]
    /\ robot_connections = {}
    /\ pending_responses = {}
    /\ lockq = <<>>
    /\ inbox = [t \in Socks |-> <<>>]
    /\ hist = [nextUuid |-> 0, nreq |-> 0, ntool |-> 0, ncloses |-> 0, agglog |-> <<>>,
               echoed |-> {}, reqs |-> <<>>, late |-> {}, published |-> {},
               quota |-> Quota,
               displaced |-> {}, latest |-> [p \in Agents \X Servers |-> ""]]
    /\ rw = [pc |-> "parked"]

Next ==
    \E t \in Socks :
        \/ Connect(t)
        \/ RegisterResume(t)
        \/ RegisterClosed(t)
        \/ PeerClose(t)
        \/ LoopExit(t)
        \/ UnregisterResume(t)
        \/ ToolRecv(t)
        \/ CallerRecv(t)
        \/ ForwardResume(t)
        \/ SendDone(t)

Spec == Init /\ [][Next]_vars

\* The event loop runs every coroutine that can run: a waiter handed the
\* lock resumes, a send_text or close() in progress ends, and a receive_text
\* on a closed socket raises.  What the peers do is under no obligation.
Scheduling ==
    \A t \in Socks :
        /\ WF_vars(RegisterResume(t))
        /\ WF_vars(RegisterClosed(t))
        /\ WF_vars(UnregisterResume(t))
        /\ WF_vars(ForwardResume(t))
        /\ WF_vars(SendDone(t))
        /\ WF_vars(LoopExit(t))

SpecFair == Init /\ [][Next]_vars /\ Scheduling

(***************************************************************************)
(* The id rewriter as a workbench: an input pair, its rewritten form, and  *)
(* what parsing the rewritten form gives back.                             *)
(***************************************************************************)
IdAlphabet == {"_", "n", "u", "l", "7"}
RECURSIVE StringsUpTo(_)
StringsUpTo(n) ==
    IF n = 0 THEN {<<>>}
    ELSE LET shorter == StringsUpTo(n - 1)
         IN  shorter \cup {Append(s, c) : s \in {x \in shorter : Len(x) = n - 1},
                                          c \in IdAlphabet}
RwUuids == {<<"a">>, <<"b", "-", "c">>}
RwInts == {0 - 12, 0 - 1, 0, 7, 10, 105}
RwIds == {IntId(i) : i \in RwInts} \cup {StrId(s) : s \in StringsUpTo(MaxIdLen)}
\* A caller's request with the given id; AbsentId for no "id" key.
RwMessage(id) == [json |-> TRUE, id |-> id, kind |-> "request",
                  method |-> "tools/list", name |-> ""]

RwInit ==
    /\ ep \in Populations
    /\ sock = [t \in Socks |-> "new"]
    /\ pc = [t \in Socks |-> "new"]
    /\ loc = [t \in Socks |-> Loc0]
    /\ mcp_server_connections = [a \in Agents |-> <<>>]
    /\ robot_connections = {}
    /\ pending_responses = {}
    /\ lockq = <<>>
    /\ inbox = [t \in Socks |-> <<>>]
    /\ hist = [nextUuid |-> 0, nreq |-> 0, ntool |-> 0, ncloses |-> 0, agglog |-> <<>>,
               echoed |-> {}, reqs |-> <<>>, late |-> {}, published |-> {},
               quota |-> Quota,
               displaced |-> {}, latest |-> [p \in Agents \X Servers |-> ""]]
    /\ rw \in {[pc |-> "input", uuid |-> u, id |-> i, tid |-> <<>>,
             out |-> [uuid |-> NoUuid, id |-> NullId], msg |-> RwMessage(i)] :
                 u \in RwUuids, i \in RwIds \cup {NullId, AbsentId}}

RwTransform ==
    /\ rw.pc = "input"
    /\ rw.id.t \in {"int", "str"}
    /\ rw' = [rw EXCEPT !.pc = "transformed", !.tid = TransformId(rw.id, rw.uuid)]
    /\ UNCHANGED <<sock, pc, loc, mcp_server_connections, robot_connections,
                   pending_responses, lockq, inbox, hist, ep>>

RwRestore ==
    /\ rw.pc = "transformed"
    /\ rw' = [rw EXCEPT !.pc = "restored", !.out = RestoreStr(rw.tid)]
    /\ UNCHANGED <<sock, pc, loc, mcp_server_connections, robot_connections,
                   pending_responses, lockq, inbox, hist, ep>>

\* transform_jsonrpc_message is applied to a request carrying the id.
RwTransformMessage ==
    /\ rw.pc = "input"
    /\ rw' = [rw EXCEPT !.pc = "message",
                        !.msg = transform_jsonrpc_message(RwMessage(rw.id), rw.uuid)]
    /\ UNCHANGED <<sock, pc, loc, mcp_server_connections, robot_connections,
                   pending_responses, lockq, inbox, hist, ep>>

\* _restore_jsonrpc_id is applied to the string id as a tool server sent it.
RwParse ==
    /\ rw.pc = "input"
    /\ rw.id.t = "str"
    /\ rw' = [rw EXCEPT !.pc = "parsed", !.out = RestoreStr(rw.id.v)]
    /\ UNCHANGED <<sock, pc, loc, mcp_server_connections, robot_connections,
                   pending_responses, lockq, inbox, hist, ep>>

RwNext == RwTransform \/ RwRestore \/ RwTransformMessage \/ RwParse

SpecRewrite == RwInit /\ [][RwNext]_vars

(***************************************************************************)
(* The aggregation on its own: a completed entry's responses, aggregated   *)
(* in the order they arrived and in another order of arrival.              *)
(***************************************************************************)
AgServers == {"s1", "s2", "s3"}
AgKinds == {"tools", "content", "other", "error"}
AgResponse(server_id, kind) ==
    [server_id |-> server_id,
     response |-> [json |-> TRUE, id |-> StrId(<<"a", "_", "n", "_", "7">>), kind |-> kind,
                   tools |-> IF kind = "tools" THEN ToolNames ELSE {}, src |-> server_id]]
\* The responses of two or three servers, one each, in an order of arrival.
AgReceived ==
    {<<AgResponse(s[1], k[1]), AgResponse(s[2], k[2])>> :
        s \in {x \in AgServers \X AgServers : x[1] # x[2]}, k \in AgKinds \X AgKinds}
    \cup
    {<<AgResponse(s[1], k[1]), AgResponse(s[2], k[2]), AgResponse(s[3], k[3])>> :
        s \in {x \in AgServers \X AgServers \X AgServers :
                  x[1] # x[2] /\ x[1] # x[3] /\ x[2] # x[3]},
        k \in AgKinds \X AgKinds \X AgKinds}
\* The entry that has collected the responses.
AgPending(received) ==
    [tid |-> StrId(<<"a", "_", "n", "_", "7">>), request_id |-> IntId(7),
     connection_uuid |-> <<"a">>, rid |-> 1, received |-> received,
     expected_servers |-> {r.server_id : r \in SeqRange(received)}]
\* The same responses in another order of arrival.
Reorderings(received) ==
    {[i \in 1..Len(received) |-> received[f[i]]] : f \in Permutations(1..Len(received))}

AgInit ==
    /\ ep \in Populations
    /\ sock = [t \in Socks |-> "new"]
    /\ pc = [t \in Socks |-> "new"]
    /\ loc = [t \in Socks |-> Loc0]
    /\ mcp_server_connections = [a \in Agents |-> <<>>]
    /\ robot_connections = {}
    /\ pending_responses = {}
    /\ lockq = <<>>
    /\ inbox = [t \in Socks |-> <<>>]
    /\ hist = [nextUuid |-> 0, nreq |-> 0, ntool |-> 0, ncloses |-> 0, agglog |-> <<>>,
               echoed |-> {}, reqs |-> <<>>, late |-> {}, published |-> {},
               quota |-> Quota,
               displaced |-> {}, latest |-> [p \in Agents \X Servers |-> ""]]
    /\ rw \in {[pc |-> "responses", received |-> r] : r \in AgReceived}

\* aggregate_responses is applied to the entry, and to the entry as it would
\* be had the responses arrived in another order.
AgAggregate ==
    /\ rw.pc = "responses"
    /\ \E other \in Reorderings(rw.received) :
          rw' = [pc |-> "aggregated", received |-> rw.received, other |-> other,
                 out |-> aggregate_responses(AgPending(rw.received)),
                 reordered |-> aggregate_responses(AgPending(other))]
    /\ UNCHANGED <<sock, pc, loc, mcp_server_connections, robot_connections,
                   pending_responses, lockq, inbox, hist, ep>>

AgNext == AgAggregate

SpecAggregate == AgInit /\ [][AgNext]_vars

(***************************************************************************)
(* One caller sending a second request after its first: the router with    *)
(* one caller of agent A and the tool servers s1 and s2 of agent A.        *)
(***************************************************************************)
OrderPopulations ==
    {e \in [Socks -> UNION {Endpoints(t) : t \in Socks}] :
        /\ \A t \in Socks : e[t] \in Endpoints(t)
        /\ e["t1"] # NoUser /\ e["t2"] # NoUser
        /\ e["t3"] = NoUser /\ e["c2"] = NoUser}
OrderQuota == [req |-> MaxCallerMsgs + 1, tool |-> MaxToolMsgs - 1, closes |-> MaxCloses]

OrderInit ==
    /\ ep \in OrderPopulations
    /\ sock = [t \in Socks |-> "new"]
    /\ pc = [t \in Socks |-> "new"]
    /\ loc = [t \in Socks |-> Loc0]
    /\ mcp_server_connections = [a \in Agents |-> <<>>]
    /\ robot_connections = {}
    /\ pending_responses = {}
    /\ lockq = <<>>
    /\ inbox = [t \in Socks |-> <<>>]
    /\ hist = [nextUuid |-> 0, nreq |-> 0, ntool |-> 0, ncloses |-> 0, agglog |-> <<>>,
               echoed |-> {}, reqs |-> <<>>, late |-> {}, published |-> {},
               quota |-> OrderQuota,
               displaced |-> {}, latest |-> [p \in Agents \X Servers |-> ""]]
    /\ rw = [pc |-> "parked"]

SpecOrder == OrderInit /\ [][Next]_vars

\* C3 as claimed: parsing the rewritten id gives back the caller uuid and the
\* original id, value and type, for every integer and every string id.
C3_RoundTripAll ==
    rw.pc = "restored" => rw.out = [uuid |-> SomeUuid(rw.uuid), id |-> rw.id]

\* C3 amended: the round trip is the identity for every integer id and every
\* string id other than the literal "null", which parses to a null id.
C3_RoundTrip ==
    rw.pc = "restored" =>
        /\ rw.out.uuid = SomeUuid(rw.uuid)
        /\ rw.out.id = IF rw.id = StrId(<<"n", "u", "l", "l">>) THEN NullId ELSE rw.id

\* A string id holding the separator, and a negative integer id, are restored.
C3_Witness ==
    /\ rw.pc = "restored"
    /\ rw.id = StrId(<<"n", "_", "7">>)
    /\ rw.out.id = rw.id

(***************************************************************************)
(* What the claims are stated over.                                        *)
(***************************************************************************)
\* The registry's entry for a pair, "" when there is none.
RegisteredSock(agent_id, server_id) ==
    LET conns == mcp_server_connections[agent_id]
    IN  IF HasKey(conns, server_id) THEN conns[KeyIndex(conns, server_id)].websocket
        ELSE ""

\* The frames of a caller's inbox that answer requests.
Replies(c) == {i \in 1..Len(inbox[c]) : inbox[c][i].kind # "established"}
RepliesFor(c, rid) == {i \in Replies(c) : inbox[c][i].rid = rid}

\* The caller socket registered under a uuid.
CallerOf(u) == {r.websocket : r \in {x \in robot_connections : x.connection_uuid = u}}

\* An id of the rewritten form <caller_uuid>_n_... or <caller_uuid>_s_...
IsPrefix(p, s) == Len(p) <= Len(s) /\ SubSeq(s, 1, Len(p)) = p
IsRewritten(id) ==
    /\ id.t = "str"
    /\ \E n \in 0..(hist.nextUuid - 1), tag \in {"n", "s"} :
          IsPrefix(Uuid4(n) \o <<"_", tag, "_">>, id.v)

\* The handler that ran an aggregation has finished with it.
DeliveryOver(e) ==
    ~(pc[e.by] \in {"fwd_wait", "fwd_send", "dead"} /\ loc[e.by].rid = e.rid)

\* C1: in every reachable state the servers recorded in an entry's
\* received_responses are among its expected_servers.
C1_ReceivedWithinExpected ==
    \A p \in pending_responses : ReceivedKeys(p) \subseteq p.expected_servers

\* C2: the registry holds at most one connection for each (agent_id, server_id).
C2_OneConnectionPerPair ==
    \A a \in Agents :
        \A i, j \in 1..Len(mcp_server_connections[a]) :
            mcp_server_connections[a][i].server_id = mcp_server_connections[a][j].server_id
                => i = j

\* A second socket has registered under a registered pair and holds its slot.
C2_Witness ==
    \E d \in hist.displaced : RegisteredSock(SockAgent(d.new), SockServer(d.new)) = d.new

\* C4: a request whose pending entry became complete has exactly one frame
\* delivered to its caller: never two, and one once the handler has finished
\* while the caller is connected.
C4_ExactlyOneFrame ==
    \A k \in 1..Len(hist.agglog) :
        LET e == hist.agglog[k]
        IN  \A c \in CallerOf(e.connection_uuid) :
                /\ Cardinality(RepliesFor(c, e.rid)) <= 1
                /\ (DeliveryOver(e) /\ sock[c] = "open")
                      => Cardinality(RepliesFor(c, e.rid)) = 1

\* C5: no frame delivered to a caller carries an id of the rewritten form.
C5_NoRewrittenIdToCaller ==
    \A c \in CallerSocks : \A i \in Replies(c) : ~IsRewritten(inbox[c][i].id)

\* C7: once the aggregate of a request is delivered its entry is absent from
\* the pending table, and no request is aggregated twice.
C7_Delivered_Absent ==
    \A c \in CallerSocks : \A i \in Replies(c) :
        inbox[c][i].kind = "result" =>
            ~\E p \in pending_responses : p.rid = inbox[c][i].rid
C7_AggregatedOnce ==
    /\ C7_Delivered_Absent
    /\ \A j, k \in 1..Len(hist.agglog) :
          hist.agglog[j].rid = hist.agglog[k].rid => j = k

\* C8: a socket that displaced another one and is still connected is the
\* socket requests for its pair are sent on, also after the displaced
\* socket's endpoint has run its finally clause.
C8_DisplacerIsRouted ==
    \A d \in hist.displaced :
        (/\ hist.latest[Pair(d.new)] = d.new
         /\ sock[d.new] = "open"
         /\ pc[d.new] \notin {"unreg_wait", "done"})
            => RegisteredSock(SockAgent(d.new), SockServer(d.new)) = d.new

\* C9: no forward_to_mcp_server is inside send_text on a socket whose
\* displacing registration has completed.
C9_NoSendOnDisplaced ==
    \A t \in Socks :
        (pc[t] = "fwd_send" /\ loc[t].ckind = "tool")
            => \A d \in hist.displaced : d.old # loc[t].to

\* A registration waits behind a send to the socket it will displace, and
\* a later send goes to the displacing socket.
C9_Witness ==
    \E t \in Socks, d \in hist.displaced :
        pc[t] = "fwd_send" /\ loc[t].ckind = "tool" /\ loc[t].to = d.new

\* C10: a forward whose send raised ConnectionClosed has returned (false)
\* and its connection is no longer registered.
C10_ClosedSendReturns ==
    \A t \in Socks :
        loc[t].exc = "ConnectionClosed" =>
            /\ pc[t] # "dead"
            /\ \A a \in Agents, s \in Servers : RegisteredSock(a, s) # loc[t].to
            /\ \A r \in robot_connections : r.websocket # loc[t].to

\* C6: a tools/call request with an integer or string id that was forwarded
\* to the tool server its name resolves to, and that this server has answered
\* with a success response echoing the forwarded frame's id, has a reply with
\* the original id in its caller's inbox once the server's handler is done.
C6_RoundTrip ==
    \A w \in ToolSocks : \A f \in ForwardedFrames({w}) :
        (/\ f.method = "tools/call"
         /\ f.orig.t \in {"int", "str"}
         /\ [by |-> w, rid |-> f.rid] \in hist.echoed
         /\ pc[w] \notin {"fwd_wait", "fwd_send", "dead"}
         /\ sock[f.from] = "open")
            => \E j \in Replies(f.from) : inbox[f.from][j].id = f.orig

\* The handler of request k has finished with it.
Handled(k) ==
    LET c == hist.reqs[k].from
    IN  ~(pc[c] \in {"fwd_wait", "fwd_send", "dead"} /\ loc[c].rid = k)

\* A tools/call request that names a tool and has an id.
IsToolCall(m) ==
    m.json /\ m.method = "tools/call" /\ m.name # "" /\ m.id.t \in {"int", "str"}

\* C11: a tools/call with a tool name and an id, received while no tool
\* server is connected for the caller's agent, is answered with an error
\* carrying the ToolNotConnected code and the original id.
C11_ToolNotConnected ==
    \A k \in 1..Len(hist.reqs) :
        LET r == hist.reqs[k]
        IN  (IsToolCall(r.msg) /\ r.servers = <<>> /\ Handled(k) /\ sock[r.from] = "open")
                => \E j \in RepliesFor(r.from, k) :
                      /\ inbox[r.from][j].kind = "error"
                      /\ inbox[r.from][j].code = "ToolNotConnected"
                      /\ inbox[r.from][j].id = r.msg.id

\* The frame of request k that caller c is sending, or waiting to send, to a
\* tool server.
InFlightToTool(c, k) ==
    pc[c] \in {"fwd_wait", "fwd_send", "dead"} /\ loc[c].rid = k /\ loc[c].ckind = "tool"

\* A frame of request k has been sent, or is being sent, to a tool server.
SentToTool(k) ==
    \/ \E w \in ToolSocks : \E f \in ForwardedFrames({w}) : f.rid = k
    \/ \E c \in CallerSocks : InFlightToTool(c, k)

\* C12: a tools/call whose tool name is in no catalog of the caller's agent
\* is never sent to a tool server and never has a pending entry, and it is
\* answered with an error carrying the MethodNotFound code (-32601) and the
\* original id.
C12_LookupMiss ==
    \A k \in 1..Len(hist.reqs) :
        LET r == hist.reqs[k]
        IN  (IsToolCall(r.msg) /\ ~r.known) =>
                /\ ~SentToTool(k)
                /\ ~\E p \in pending_responses : p.rid = k
                /\ (Handled(k) /\ sock[r.from] = "open")
                      => \E j \in RepliesFor(r.from, k) :
                            /\ inbox[r.from][j].kind = "error"
                            /\ inbox[r.from][j].code = "MethodNotFound"
                            /\ inbox[r.from][j].id = r.msg.id

\* A call of a tool no connected server publishes has been answered.
C12_Witness ==
    \E k \in 1..Len(hist.reqs) :
        /\ IsToolCall(hist.reqs[k].msg)
        /\ ~hist.reqs[k].known
        /\ hist.reqs[k].servers # <<>>
        /\ RepliesFor(hist.reqs[k].from, k) # {}

\* C13: a caller's JSON message without an id reaches tool servers as it was
\* received, and no pending entry is ever created for it.
C13_NotificationUnchanged ==
    \A k \in 1..Len(hist.reqs) :
        LET r == hist.reqs[k]
        IN  (r.msg.json /\ r.msg.id = AbsentId) =>
                /\ \A w \in ToolSocks : \A f \in ForwardedFrames({w}) :
                      f.rid = k => f = r.msg
                /\ InFlightToTool(r.from, k) => loc[r.from].msg = r.msg
                /\ ~\E p \in pending_responses : p.rid = k

\* A notification has been written to a tool server.
C13_Witness ==
    \E k \in 1..Len(hist.reqs) :
        /\ hist.reqs[k].msg.json
        /\ hist.reqs[k].msg.id = AbsentId
        /\ \E w \in ToolSocks : \E f \in ForwardedFrames({w}) : f.rid = k

IsRegistered(t) ==
    \/ \E a \in Agents : \E conn \in SeqRange(mcp_server_connections[a]) : conn.websocket = t
    \/ \E r \in robot_connections : r.websocket = t

\* C15: a connection whose endpoint has left its read loop and finished its
\* finally clause has no entry in the registry.
C15_ClosedUnregistered ==
    \A t \in Socks : pc[t] = "done" => ~IsRegistered(t)

\* No handler, registration or teardown is in progress: every endpoint is
\* yet to connect, awaiting receive_text(), or finished.
Quiet == \A t \in Socks : pc[t] \in {"new", "loop", "done"}

\* C16: when the router has nothing left to do, no pending entry remains
\* whose caller has disconnected and been torn down.
C16_NoEntryAfterDisconnect ==
    Quiet => \A p \in pending_responses : pc[hist.reqs[p.rid].from] # "done"

\* C17: every descriptor in the catalog of a registered tool server
\* connection carries the server id of that connection.
C17_CatalogOwner ==
    \A a \in Agents : \A conn \in SeqRange(mcp_server_connections[a]) :
        \A d \in conn.tools : d.server_id = conn.server_id

\* A tools/list result has been stored in the catalog of a registered
\* connection.
C17_Witness ==
    \E a \in Agents : \E conn \in SeqRange(mcp_server_connections[a]) : conn.tools # {}

\* C18: a step that changes the caller registry keeps every entry it held and
\* adds exactly one entry, under a uuid that no entry held before.
C18_RegisterAddsOne ==
    [][robot_connections' # robot_connections =>
         \E r \in robot_connections' :
             /\ robot_connections' = robot_connections \cup {r}
             /\ \A q \in robot_connections : q.connection_uuid # r.connection_uuid]_vars

\* Two callers of the same agent are registered side by side.
C18_Witness ==
    \E r, q \in robot_connections :
        r.websocket # q.websocket /\ r.agent_id = q.agent_id

\* C19: while the first frame of a caller request with an integer or string
\* id is being sent, or waits to be sent, to a tool server, the request has
\* its entry in the pending table.
C19_PendingBeforeSend ==
    \A k \in 1..Len(hist.reqs) :
        LET r == hist.reqs[k]
        IN  (/\ r.msg.json
             /\ r.msg.id.t \in {"int", "str"}
             /\ InFlightToTool(r.from, k)
             /\ ~\E w \in ToolSocks : \E f \in ForwardedFrames({w}) : f.rid = k)
            => \E p \in pending_responses : p.rid = k

\* C20: transform_jsonrpc_message gives a message whose id is the caller's
\* uuid, a tag and the original id for every integer and every string id, and
\* gives the message back as it was when the id is null or missing.
C20_EveryIdRewritten ==
    rw.pc = "message" =>
        IF rw.id.t \in {"int", "str"}
        THEN /\ rw.msg.id.t = "str"
             /\ \E tag \in {"n", "s"} : IsPrefix(rw.uuid \o <<"_", tag, "_">>, rw.msg.id.v)
        ELSE rw.msg = RwMessage(rw.id)

\* The positions of "_" in a string, and the text between its first two.
Underscores(s) == {i \in 1..Len(s) : s[i] = "_"}
TypeTag(s) ==
    LET i == CHOOSE x \in Underscores(s) : \A y \in Underscores(s) : x <= y
        j == CHOOSE x \in Underscores(s) \ {i} : \A y \in Underscores(s) \ {i} : x <= y
    IN  SubSeq(s, i + 1, j - 1)

\* C21: _restore_jsonrpc_id returns no caller uuid (None, or the empty string
\* that its caller treats alike) for a string with fewer than three
\* "_"-separated parts or with a type tag other than n and s.
C21_NoUuidForMalformed ==
    rw.pc = "parsed" =>
        ((Cardinality(Underscores(rw.id.v)) < 2
            \/ TypeTag(rw.id.v) \notin {<<"n">>, <<"s">>})
         => ~(rw.out.uuid.some /\ rw.out.uuid.v # <<>>))

\* The frames of request k written to tool servers, each with its socket.
FramesOf(k) ==
    {<<w, i>> \in ToolSocks \X (1..(MaxCallerMsgs * 3)) :
        i <= Len(inbox[w]) /\ inbox[w][i].kind = "request" /\ inbox[w][i].rid = k}

\* No other request of the same caller carries the id of request k.
Unshared(k) ==
    \A j \in 1..Len(hist.reqs) :
        (j # k /\ hist.reqs[j].from = hist.reqs[k].from)
            => hist.reqs[j].msg.id # hist.reqs[k].msg.id

\* Request k carries an id that its handler rewrites and that no other
\* request of the same caller carries.
OwnId(k) == Truthy(hist.reqs[k].msg.id) /\ Unshared(k)

\* C22: a tools/call whose tool name find_tool_server resolves is written at
\* most once, and only to that server of the caller's agent; an entry
\* for it expects exactly that server, and the entry of a request whose id was
\* rewritten, and is used by no other request of its caller, is in the table
\* while the frame is being sent.
C22_OneResolvedServer ==
    \A k \in 1..Len(hist.reqs) :
        LET r == hist.reqs[k]
        IN  (r.msg.json /\ r.msg.method = "tools/call" /\ r.msg.name # "" /\ r.owner # "")
            => /\ Cardinality(FramesOf(k)) <= 1
               /\ \A x \in FramesOf(k) :
                     SockAgent(x[1]) = SockAgent(r.from) /\ SockServer(x[1]) = r.owner
               /\ InFlightToTool(r.from, k) =>
                     /\ loc[r.from].sid = r.owner
                     /\ OwnId(k) => \E p \in pending_responses : p.rid = k
               /\ \A p \in pending_responses :
                     p.rid = k => p.expected_servers = {r.owner}

\* A tools/call has been written to the server that owns the tool while the
\* agent had a second server connected, and its entry is pending.
C22_Witness ==
    \E k \in 1..Len(hist.reqs) :
        /\ hist.reqs[k].msg.method = "tools/call"
        /\ hist.reqs[k].owner # ""
        /\ Len(hist.reqs[k].servers) = 2
        /\ FramesOf(k) # {}
        /\ \E p \in pending_responses : p.rid = k

\* A JSON request of a method other than tools/call.
IsFanOut(m) == m.json /\ m.method # "tools/call"

\* C23: a request of another method than tools/call is written only to tool
\* servers that were connected under the caller's agent when it arrived, an
\* entry for it expects exactly these servers, the entry of a request whose
\* id was rewritten, and is used by no other request of its caller, is in the
\* table while the first frame is being sent, and
\* when the handler is done and no socket has closed each of these servers
\* has been written the frame once.
C23_FanOutSet ==
    \A k \in 1..Len(hist.reqs) :
        LET r == hist.reqs[k]
            servers == SeqRange(r.servers)
        IN  IsFanOut(r.msg)
            => /\ \A x \in FramesOf(k) :
                     SockAgent(x[1]) = SockAgent(r.from) /\ SockServer(x[1]) \in servers
               /\ InFlightToTool(r.from, k) =>
                     /\ loc[r.from].sid \in servers
                     /\ (OwnId(k) /\ FramesOf(k) = {}) =>
                            \E p \in pending_responses : p.rid = k
               /\ \A p \in pending_responses : p.rid = k => p.expected_servers = servers
               /\ (Handled(k) /\ \A t \in Socks : sock[t] # "closed") =>
                     \A sid \in servers :
                        Cardinality({x \in FramesOf(k) : SockServer(x[1]) = sid}) = 1

\* A request has been fanned out to the two servers of the caller's agent
\* and its entry is pending.
C23_Witness ==
    \E k \in 1..Len(hist.reqs) :
        /\ IsFanOut(hist.reqs[k].msg)
        /\ Len(hist.reqs[k].servers) = 2
        /\ Handled(k)
        /\ Cardinality(FramesOf(k)) = 2
        /\ \E p \in pending_responses : p.rid = k

\* C24: a request of another method than tools/call that arrives while no
\* tool server is connected for the caller's agent is never sent on, never
\* has a pending entry, and is answered with an error carrying the
\* ToolNotConnected code and the original id.
C24_NoServers ==
    \A k \in 1..Len(hist.reqs) :
        LET r == hist.reqs[k]
        IN  (IsFanOut(r.msg) /\ r.msg.id.t \in {"int", "str"} /\ r.servers = <<>>) =>
                /\ ~SentToTool(k)
                /\ ~\E p \in pending_responses : p.rid = k
                /\ (Handled(k) /\ sock[r.from] = "open")
                      => /\ Cardinality(RepliesFor(r.from, k)) = 1
                         /\ \A j \in RepliesFor(r.from, k) :
                               /\ inbox[r.from][j].kind = "error"
                               /\ inbox[r.from][j].code = "ToolNotConnected"
                               /\ inbox[r.from][j].id = r.msg.id

\* A request fanned out with no server connected has been answered.
C24_Witness ==
    \E k \in 1..Len(hist.reqs) :
        /\ IsFanOut(hist.reqs[k].msg)
        /\ hist.reqs[k].msg.id.t = "int"
        /\ hist.reqs[k].servers = <<>>
        /\ RepliesFor(hist.reqs[k].from, k) # {}

\* Request k was to be forwarded: a fan-out with servers connected, or a
\* tools/call whose tool resolved.
WasForwardable(r) ==
    \/ IsFanOut(r.msg) /\ r.servers # <<>>
    \/ r.msg.json /\ r.msg.method = "tools/call" /\ r.msg.name # "" /\ r.owner # ""

ReachedServers(k) == {SockServer(x[1]) : x \in FramesOf(k)}

\* C26: after a fan-out that reached some but not all of its servers, once
\* every reached server has responded and the handlers are done, the
\* request has no pending entry.
C26_PartialFanOutCompletes ==
    \A p \in pending_responses :
        (/\ IsFanOut(hist.reqs[p.rid].msg)
         /\ Handled(p.rid)
         /\ ReachedServers(p.rid) # {}
         /\ ReachedServers(p.rid) # SeqRange(hist.reqs[p.rid].servers)
         /\ \A w \in ToolSocks : pc[w] \notin {"fwd_wait", "fwd_send", "dead"})
        => ~(ReachedServers(p.rid) \subseteq ReceivedKeys(p))

\* C27: a caller frame that is not JSON is never sent, nor being sent, to a
\* tool server, has no pending entry, and leaves its caller registered.
C27_NonJsonNotForwarded ==
    \A k \in 1..Len(hist.reqs) :
        LET r == hist.reqs[k]
        IN  ~r.msg.json =>
                /\ ~SentToTool(k)
                /\ ~\E p \in pending_responses : p.rid = k
                /\ \E q \in robot_connections : q.websocket = r.from

\* A frame that is not JSON has been handled while a tool server was
\* connected for the caller's agent.
C27_Witness ==
    \E k \in 1..Len(hist.reqs) :
        /\ ~hist.reqs[k].msg.json
        /\ hist.reqs[k].servers # <<>>
        /\ Handled(k)

\* C28: a caller frame that is not JSON, or a JSON message without an id,
\* never has a frame written back, or being written back, to its caller.
C28_SilentDrop ==
    \A k \in 1..Len(hist.reqs) :
        LET r == hist.reqs[k]
        IN  (~r.msg.json \/ r.msg.id = AbsentId) =>
                /\ RepliesFor(r.from, k) = {}
                /\ ~(/\ pc[r.from] \in {"fwd_wait", "fwd_send", "dead"}
                     /\ loc[r.from].rid = k
                     /\ loc[r.from].ckind = "robot")

\* A frame in a caller's inbox that is a tool server's message as it was sent.
IsToolFrame(f) == "src" \in DOMAIN f

\* C29: a tool server's message under a rewritten id that the pending table
\* does not hold is in the inbox of the caller the id names, once the
\* server's handler is done, when that caller is registered and open.
C29_LateForwarded ==
    \A e \in hist.late :
        LET c == hist.reqs[e.rid].from
        IN  (/\ pc[e.by] \notin {"fwd_wait", "fwd_send", "dead"}
             /\ sock[c] = "open"
             /\ \E q \in robot_connections : q.websocket = c)
            => \E j \in Replies(c) : IsToolFrame(inbox[c][j])

\* C30: when the caller of an aggregated request has closed, the handler that
\* aggregated it, unless it is still sending, has completed and the request
\* has no pending entry.
C30_GoneCallerDropped ==
    \A i \in 1..Len(hist.agglog) :
        LET e == hist.agglog[i]
            c == hist.reqs[e.rid].from
        IN  (/\ sock[c] = "closed"
             /\ ~(pc[e.by] \in {"fwd_wait", "fwd_send"} /\ loc[e.by].rid = e.rid))
            => /\ ~(pc[e.by] = "dead" /\ loc[e.by].rid = e.rid)
               /\ ~\E p \in pending_responses : p.rid = e.rid

\* C31: the aggregate of a completed entry has the same result key and the
\* same collection of entries whatever the order in which the responses
\* arrived.
C31_OrderErased ==
    rw.pc = "aggregated" =>
        /\ rw.out.flag = rw.reordered.flag
        /\ Len(rw.out.entries) = Len(rw.reordered.entries)
        /\ SeqRange(rw.out.entries) = SeqRange(rw.reordered.entries)

\* The aggregations of request k, and those among them that raised.
AggregationsOf(k) == {i \in 1..Len(hist.agglog) : hist.agglog[i].rid = k}
RaisedOf(k) == {i \in AggregationsOf(k) : hist.agglog[i].raised}
InternalErrors(c, k) ==
    {j \in RepliesFor(c, k) :
        inbox[c][j].kind = "error" /\ inbox[c][j].code = "InternalError"}

ForwardedFor(w, c) ==
    {i \in 1..Len(inbox[w]) : inbox[w][i].kind = "request" /\ inbox[w][i].from = c}

\* C33: the requests of one caller connection are handled in the order of
\* their arrival: of two of its requests forwarded to the same tool-server
\* connection, the one that arrived first is written to it first.
C33_ArrivalOrder ==
    \A w \in ToolSocks, c \in CallerSocks :
        \A i, j \in ForwardedFor(w, c) :
            i < j => inbox[w][i].rid < inbox[w][j].rid

C33_Witness ==
    \E w \in ToolSocks, c \in CallerSocks :
        \E i, j \in ForwardedFor(w, c) :
            /\ i < j
            /\ inbox[w][i].rid < inbox[w][j].rid
            /\ pc[c] = "loop"

\* t holds the registry lock.
Holds(t) == lockq # <<>> /\ Head(lockq) = t

\* C34: the registry lock is never held forever: under the event loop's
\* scheduling, whoever holds it gives it up.
C34_LockReleased ==
    \A t \in Socks : Holds(t) ~> ~Holds(t)

\* The agent of the caller whose request an entry correlates.
EntryAgent(p) == SockAgent(hist.reqs[p.rid].from)

\* C35: a response is recorded in a pending entry only when the tool server
\* that sent it is connected under the agent of the entry's caller.
C35_AgentIsolation ==
    \A p \in pending_responses :
        \A r \in SeqRange(p.received) : SockAgent(r.response.src) = EntryAgent(p)

====
